---------------------------- MODULE Spec2Model ----------------------------
(***************************************************************************)
(* A model of calculatePiDigitsString (PiTime.cpp), the spigot generator   *)
(* of the decimal digits of pi.  One behaviour is one call: the control    *)
(* state pc walks  start -> loop -> format -> done,  with one step per     *)
(* iteration of the outer j loop.  The inner i loop, the nines buffering   *)
(* and the stringstream formatting are operators translated from the code. *)
(*                                                                         *)
(* Index conventions: the state vector a keeps the code's 0-based indices  *)
(* (a function on 0..len-1); calculated_digits is a TLA+ sequence, so the  *)
(* code's calculated_digits[i] is calculated_digits[i+1] here.  The        *)
(* returned std::string is a sequence of one-character strings.            *)
(***************************************************************************)
EXTENDS Integers, Sequences, FiniteSets, TLC

\* Largest digit count requested in the main specification: n ranges over
\* -MaxNeg..MaxN.
MaxN == 51

\* Number of negative digit counts requested.
MaxNeg == 2

VARIABLES pc, n, len, a, calculated_digits, nines, predigit, j, final_num, q, result

vars == <<pc, n, len, a, calculated_digits, nines, predigit, j, final_num, q, result>>

----------------------------------------------------------------------------
(* The pure pieces of the routine.                                         *)

\* Mutant of NonPositive: the guard written n < 0.
NegativeOnly(m) == m < 0

\* if (n <= 0) return "3.";
NonPositive(m) == m <= 0

\* int len = static_cast<int>(std::floor(10.0 * n / 3.0)) + 3;
\* 10.0*n is exact in a double and the quotient by 3.0 is either an integer
\* or at distance 1/3 from one, so the floor is the integer quotient.
StateLen(m) == ((10 * m) \div 3) + 3

\* Mutant of InitialVector: the vector filled with 1.
InitialVectorOfOnes(l) == [i \in 0 .. (l - 1) |-> 1]

\* std::vector<int> a(len); for (...) a[i] = 2;
InitialVector(l) == [i \in 0 .. (l - 1) |-> 2]

\* Mutant of InnerStep: the carry scaled by i + 1 instead of i.
InnerStepCarryOffByOne(s, i) ==
    LET num == (s.a[i] * 10) + s.carry
    IN  [a     |-> [s.a EXCEPT ![i] = num % ((2 * i) + 1)],
         carry |-> (num \div ((2 * i) + 1)) * (i + 1)]

\* One turn of the inner loop at index i; s is [a, carry].
InnerStep(s, i) ==
    LET num == (s.a[i] * 10) + s.carry
    IN  [a     |-> [s.a EXCEPT ![i] = num % ((2 * i) + 1)],
         carry |-> (num \div ((2 * i) + 1)) * i]

\* for (int i = hi; i >= lo; --i) { ... }: the turns hi, hi-1, ..., lo of the
\* inner loop applied in that order to s.  A range of several turns is run
\* as its upper half followed by its lower half, which is the same sequence
\* of turns and keeps the depth of evaluation logarithmic in the length:
\* upper ranges over the one state the upper half ends in, which is thereby
\* computed before the lower half starts, and the set built has one element.
RECURSIVE InnerRange(_, _, _)
InnerRange(s, hi, lo) ==
    IF hi < lo
    THEN s
    ELSE IF hi = lo
         THEN InnerStep(s, hi)
         ELSE LET mid == (hi + lo) \div 2
              IN  CHOOSE r \in {InnerRange(upper, mid, lo) :
                                   upper \in {InnerRange(s, hi, mid + 1)}} : TRUE

\* long long carry = 0; for (int i = len - 1; i > 0; --i) { ... }
InnerPass(v, l) == InnerRange([a |-> v, carry |-> 0], l - 1, 1)

\* if (q >= 10) q = 10;
Clamp(qq) == IF qq >= 10 THEN 10 ELSE qq

\* for (int k = 0; k < nines; ++k) push_back(v): the k entries pushed.
Repeat(v, k) == [x \in 1 .. k |-> v]

\* Mutant of Commit: the q == 10 branch pushes predigit without the carry.
CommitWithoutCarry(cd, jj, qq, pre, ni) ==
    IF jj > 0
    THEN IF qq < 9
         THEN (cd \o <<pre>>) \o Repeat(9, ni)
         ELSE IF qq = 10
              THEN (cd \o <<pre>>) \o Repeat(0, ni)
              ELSE cd
    ELSE cd

\* if (j > 0) { if (q < 9) {...} else if (q == 10) {...} }
Commit(cd, jj, qq, pre, ni) ==
    IF jj > 0
    THEN IF qq < 9
         THEN (cd \o <<pre>>) \o Repeat(9, ni)
         ELSE IF qq = 10
              THEN (cd \o <<pre + 1>>) \o Repeat(0, ni)
              ELSE cd
    ELSE cd

\* Mutant of NextPredigit: q == 9 is stored as the predigit in every iteration.
NextPredigitStoresNine(jj, qq, pre) ==
    IF qq < 9
    THEN qq
    ELSE IF qq = 9
         THEN qq
         ELSE 0

\* The assignments to predigit in the second if / else if / else chain.
NextPredigit(jj, qq, pre) ==
    IF qq < 9
    THEN qq
    ELSE IF qq = 9
         THEN (IF jj > 0 THEN pre ELSE qq)
         ELSE 0

\* Mutant of NextNines: the q < 9 branch does not reset the count.
NextNinesWithoutReset(jj, qq, ni) ==
    IF qq < 9
    THEN ni
    ELSE IF qq = 9
         THEN (IF jj > 0 THEN ni + 1 ELSE ni)
         ELSE (IF jj > 0 THEN 0 ELSE ni)

\* The assignments to nines in the second if / else if / else chain.
NextNines(jj, qq, ni) ==
    IF qq < 9
    THEN (IF jj > 0 THEN 0 ELSE ni)
    ELSE IF qq = 9
         THEN (IF jj > 0 THEN ni + 1 ELSE ni)
         ELSE (IF jj > 0 THEN 0 ELSE ni)

\* if (calculated_digits.size() >= n + 1) break;
EnoughDigits(cd, m) == Len(cd) >= m + 1

\* The body of the outer loop for iteration s.j, then the break test and
\* the ++j / j < n + 3 test of the for statement.  s holds the locals.
OuterBody(s) ==
    LET p     == InnerPass(s.a, s.len)
        fin   == (p.a[0] * 10) + p.carry
        qq    == Clamp(fin \div 10)
        cd    == Commit(s.cd, s.j, qq, s.predigit, s.nines)
        brk   == EnoughDigits(cd, s.n)
    IN  [n         |-> s.n,
         len       |-> s.len,
         a         |-> [p.a EXCEPT ![0] = fin % 10],
         cd        |-> cd,
         nines     |-> NextNines(s.j, qq, s.nines),
         predigit  |-> NextPredigit(s.j, qq, s.predigit),
         j         |-> IF brk THEN s.j ELSE s.j + 1,
         final_num |-> fin,
         q         |-> qq,
         exit      |-> brk \/ ~(s.j + 1 < s.n + 3)]

\* The locals as they stand when the outer loop is first entered.
EnterLoop(m) ==
    [n |-> m, len |-> StateLen(m), a |-> InitialVector(StateLen(m)),
     cd |-> <<>>, nines |-> 0, predigit |-> 0, j |-> 0,
     final_num |-> 0, q |-> 0, exit |-> FALSE]

\* At most k further iterations of the outer loop from the locals s, none
\* once the loop has been left.  Several iterations are run as two shorter
\* runs one after the other (first ranges over the one state the first run
\* ends in).
RECURSIVE RunIterations(_, _)
RunIterations(s, k) ==
    IF s.exit \/ k <= 0
    THEN s
    ELSE IF k = 1
         THEN OuterBody(s)
         ELSE CHOOSE r \in {RunIterations(first, k - (k \div 2)) :
                              first \in {RunIterations(s, k \div 2)}} : TRUE

\* for (int j = 0; j < n + 3; ++j) { ... } run to its end.
RunLoop(m) == RunIterations(EnterLoop(m), m + 3)

DigitChar(d) == <<"0", "1", "2", "3", "4", "5", "6", "7", "8", "9">>[d + 1]

\* pi_stream << (int) v: the decimal text of v.
RECURSIVE DecStr(_)
DecStr(v) ==
    IF v < 0
    THEN <<"-">> \o DecStr(-v)
    ELSE IF v < 10
         THEN <<DigitChar(v)>>
         ELSE DecStr(v \div 10) \o <<DigitChar(v % 10)>>

\* Mutant of PrintDigits: printing starts at the anchor, calculated_digits[i].
RECURSIVE PrintDigitsFromAnchor(_, _, _)
PrintDigitsFromAnchor(cd, lo, hi) ==
    IF hi <= lo
    THEN << >>
    ELSE IF hi = lo + 1
         THEN DecStr(cd[lo + 1])
         ELSE LET mid == (lo + hi) \div 2
              IN  PrintDigitsFromAnchor(cd, lo, mid) \o PrintDigitsFromAnchor(cd, mid, hi)

\* for (int i = lo; i < hi; ++i) pi_stream << calculated_digits[i + 1];
\* the text written, the texts of two adjacent ranges being concatenated.
RECURSIVE PrintDigits(_, _, _)
PrintDigits(cd, lo, hi) ==
    IF hi <= lo
    THEN << >>
    ELSE IF hi = lo + 1
         THEN DecStr(cd[lo + 2])
         ELSE LET mid == (lo + hi) \div 2
              IN  PrintDigits(cd, lo, mid) \o PrintDigits(cd, mid, hi)

\* The formatting block after the loop.
Format(m, cd) ==
    LET num_decimal_digits_available == IF Len(cd) > 0 THEN Len(cd) - 1 ELSE 0
        digits_to_print == IF m < num_decimal_digits_available
                           THEN m ELSE num_decimal_digits_available
    IN  <<"3", ".">> \o PrintDigits(cd, 0, digits_to_print)

\* The whole routine as a function of its argument.
calculatePiDigitsString(m) ==
    IF NonPositive(m)
    THEN <<"3", ".">>
    ELSE Format(m, RunLoop(m).cd)

----------------------------------------------------------------------------
(* The call as a state machine.                                            *)

Locals ==
    [n |-> n, len |-> len, a |-> a, cd |-> calculated_digits, nines |-> nines,
     predigit |-> predigit, j |-> j, final_num |-> final_num, q |-> q,
     exit |-> FALSE]

InitWith(inputs) ==
    /\ n \in inputs
    /\ pc = "start"
    /\ len = 0
    /\ a = << >>
    /\ calculated_digits = << >>
    /\ nines = 0
    /\ predigit = 0
    /\ j = 0
    /\ final_num = 0
    /\ q = 0
    /\ result = << >>

Init == InitWith((-MaxNeg) .. MaxN)

\* n <= 0: return "3." at once.
ReturnDegenerate ==
    /\ pc = "start"
    /\ NonPositive(n)
    /\ result' = <<"3", ".">>
    /\ pc' = "done"
    /\ UNCHANGED <<n, len, a, calculated_digits, nines, predigit, j, final_num, q>>

\* n > 0: size and fill the state vector, initialise the buffering state.
Allocate ==
    /\ pc = "start"
    /\ ~NonPositive(n)
    /\ len' = StateLen(n)
    /\ a' = InitialVector(StateLen(n))
    /\ calculated_digits' = << >>
    /\ nines' = 0
    /\ predigit' = 0
    /\ j' = 0
    /\ pc' = "loop"
    /\ UNCHANGED <<n, final_num, q, result>>

\* One iteration of the outer loop.
OuterIteration ==
    /\ pc = "loop"
    /\ LET s == OuterBody(Locals)
       IN  /\ a' = s.a
           /\ calculated_digits' = s.cd
           /\ nines' = s.nines
           /\ predigit' = s.predigit
           /\ j' = s.j
           /\ final_num' = s.final_num
           /\ q' = s.q
           /\ pc' = IF s.exit THEN "format" ELSE "loop"
    /\ UNCHANGED <<n, len, result>>

\* Build and return the text.
FormatResult ==
    /\ pc = "format"
    /\ result' = Format(n, calculated_digits)
    /\ pc' = "done"
    /\ UNCHANGED <<n, len, a, calculated_digits, nines, predigit, j, final_num, q>>

Next == ReturnDegenerate \/ Allocate \/ OuterIteration \/ FormatResult

Spec == Init /\ [][Next]_vars

\* Calls whose requested digits end right before a run of nines (decimal
\* digits 360 and 361 of pi are both 9), and the degenerate call.
NinesTailInputs == {0, 359}

InitNinesTail == InitWith(NinesTailInputs)

SpecNinesTail == InitNinesTail /\ [][Next]_vars

----------------------------------------------------------------------------
(* Reference data and vocabulary of the properties.                        *)

\* The first 60 decimal digits of pi, as published.
PiDigits ==
    <<1,4,1,5,9,2,6,5,3,5, 8,9,7,9,3,2,3,8,4,6, 2,6,4,3,3,8,3,2,7,9,
      5,0,2,8,8,4,1,9,7,1, 6,9,3,9,9,3,7,5,1,0, 5,8,2,0,9,7,4,9,4,4>>

\* "3." followed by the first m published digits.
PiText(m) == <<"3", ".">> \o [i \in 1 .. m |-> DigitChar(PiDigits[i])]

AsciiDigits == {"0", "1", "2", "3", "4", "5", "6", "7", "8", "9"}

DigitPortion(text) == SubSeq(text, 3, Len(text))

IsPrefix(s, t) == Len(s) <= Len(t) /\ SubSeq(t, 1, Len(s)) = s

Returned == pc = "done"

----------------------------------------------------------------------------
(* The claims.                                                             *)

\* C1: for every n >= 1 in the range the call returns "3." followed by
\* exactly the first n published decimal digits of pi, the last one
\* included.
C1_FirstDigitsOfPi == (Returned /\ n >= 1) => result = PiText(n)

\* C2: for every n > 0, when the outer loop has ended the committed
\* sequence holds at least n + 1 entries, and the returned text is "3."
\* followed by exactly n characters, each an ASCII digit.
C2_ExactLength ==
    /\ (n > 0 /\ pc \in {"format", "done"}) => Len(calculated_digits) >= n + 1
    /\ (n > 0 /\ Returned) =>
          /\ Len(result) = 2 + n
          /\ SubSeq(result, 1, 2) = <<"3", ".">>
          /\ \A i \in 3 .. Len(result) : result[i] \in AsciiDigits

\* C3: monotonic prefix: for all 1 <= n1 < n2 the digit portion of the text
\* returned for n1 is a prefix of the digit portion returned for n2.
C3_MonotonicPrefix ==
    (Returned /\ n >= 2) =>
        \A n1 \in 1 .. (n - 1) :
            IsPrefix(DigitPortion(calculatePiDigitsString(n1)), DigitPortion(result))

\* C4: the published reference values: the calls for 1, 10 and 50 digits
\* return "3.1", "3.1415926535" and "3." followed by
\* 14159265358979323846264338327950288419716939937510.
C4_ReferenceValues ==
    Returned =>
        /\ n = 1 => result = <<"3", ".", "1">>
        /\ n = 10 => result = <<"3", ".", "1", "4", "1", "5", "9", "2", "6", "5", "3", "5">>
        /\ n = 50 => result =
              <<"3", ".",
                "1", "4", "1", "5", "9", "2", "6", "5", "3", "5",
                "8", "9", "7", "9", "3", "2", "3", "8", "4", "6",
                "2", "6", "4", "3", "3", "8", "3", "2", "7", "9",
                "5", "0", "2", "8", "8", "4", "1", "9", "7", "1",
                "6", "9", "3", "9", "9", "3", "7", "5", "1", "0">>

\* C4 witness: the 50-digit call has returned its 52 characters.
C4_Witness == Returned /\ n = 50 /\ Len(result) = 52

\* C5: for every n <= 0 the call returns exactly "3." and does so without
\* allocating a state vector or running any outer iteration.
C5_DegenerateResult ==
    n <= 0 =>
        /\ pc \in {"start", "done"}
        /\ len = 0 /\ a = << >> /\ calculated_digits = << >>
        /\ j = 0 /\ final_num = 0 /\ nines = 0 /\ predigit = 0
        /\ Returned => result = <<"3", ".">>

\* C5 witness: a call with a negative count has returned.
C5_Witness == Returned /\ n < 0 /\ result = <<"3", ".">>

\* C6: the buffering step rule.  In an outer iteration j > 0 with candidate
\* q: nothing is appended when q = 9 (nines grows by one, predigit stays);
\* predigit and then nines 9s are appended when q < 9 (then predigit = q,
\* nines = 0); predigit + 1 and then nines 0s are appended when q = 10 (then
\* predigit = 0, nines = 0).  In iteration 0 nothing is appended and nines
\* stays 0.  Committed entries are never modified or removed.
C6_StepRule ==
    /\ SubSeq(calculated_digits', 1, Len(calculated_digits)) = calculated_digits
    /\ Len(calculated_digits') >= Len(calculated_digits)
    /\ pc = "loop" =>
          /\ j = 0 =>
                /\ calculated_digits' = calculated_digits
                /\ nines = 0 /\ nines' = 0
                /\ predigit' = IF q' = 10 THEN 0 ELSE q'
          /\ (j > 0 /\ q' = 9) =>
                /\ calculated_digits' = calculated_digits
                /\ nines' = nines + 1
                /\ predigit' = predigit
          /\ (j > 0 /\ q' < 9) =>
                /\ calculated_digits' =
                      (calculated_digits \o <<predigit>>) \o [k \in 1 .. nines |-> 9]
                /\ predigit' = q'
                /\ nines' = 0
          /\ (j > 0 /\ q' = 10) =>
                /\ calculated_digits' =
                      (calculated_digits \o <<predigit + 1>>) \o [k \in 1 .. nines |-> 0]
                /\ predigit' = 0
                /\ nines' = 0
          /\ q' \in 0 .. 10

C6_BufferingStep == [][C6_StepRule]_vars

\* C6 witness: a candidate below 9 has just flushed predigit 7 and one
\* buffered nine (digits 29 and 30 of pi).
C6_Witness ==
    /\ pc = "loop" /\ q < 9 /\ nines = 0
    /\ Len(calculated_digits) = 31
    /\ calculated_digits[30] = 7 /\ calculated_digits[31] = 9

\* C7: every committed entry is a single decimal digit 0..9 and prints as
\* one character; predigit is at most 8 at the start of every iteration
\* j >= 1, so the q = 10 branch never commits 10.
C7_CommittedAreDigits ==
    /\ \A i \in 1 .. Len(calculated_digits) :
          /\ calculated_digits[i] \in 0 .. 9
          /\ Len(DecStr(calculated_digits[i])) = 1
    /\ (pc = "loop" /\ j >= 1) => predigit \in 0 .. 8

\* C7 witness: the q = 10 branch has just committed predigit + 1 = 5.
C7_Witness ==
    /\ q = 10 /\ predigit = 0 /\ j = 33
    /\ calculated_digits[Len(calculated_digits)] = 5

\* C8: the candidate of the first outer iteration is 3 (neither 9 nor the
\* carry sentinel), so that iteration sets predigit = 3, and the anchor
\* entry of the committed sequence is always 3.
C8_FirstCandidateIsThree ==
    /\ (pc = "loop" /\ j = 1) =>
          /\ q = 3 /\ final_num \div 10 = 3
          /\ predigit = 3 /\ nines = 0 /\ calculated_digits = << >>
    /\ Len(calculated_digits) >= 1 => calculated_digits[1] = 3

\* C8 witness: the second iteration of the largest call has committed the
\* anchor.
C8_Witness ==
    /\ pc = "loop" /\ j = 2 /\ n = MaxN
    /\ calculated_digits = <<3>>

\* C9: at the end of every outer iteration j (0-based),
\* size(committed) + nines + 1 = j + 1.
C9_Accounting ==
    [][pc = "loop" => Len(calculated_digits') + nines' + 1 = j + 1]_vars

\* C9 witness: two nines are buffered behind the pending predigit.
C9_Witness == pc = "loop" /\ nines = 2 /\ Len(calculated_digits) + 3 = j

\* C10: final_num lies in 0..109, so final_num / 10 is already in 0..10 and
\* the clamp changes nothing; a[0] is in 0..9 and a[i] in 0..2i for every
\* i in 1..len-1.
C10_Ranges ==
    len > 0 =>
        /\ final_num \in 0 .. 109
        /\ (final_num \div 10) \in 0 .. 10
        /\ q = final_num \div 10
        /\ DOMAIN a = 0 .. (len - 1)
        /\ a[0] \in 0 .. 9
        /\ \A i \in 1 .. (len - 1) : a[i] \in 0 .. (2 * i)

\* C10 witness: an iteration whose final_num reached 100, the quotient
\* being exactly the sentinel 10.
C10_Witness == len > 0 /\ final_num >= 100 /\ q = 10 /\ a[0] = final_num % 10

=============================================================================
